---- MODULE Spec2Model ----
(***************************************************************************)
(* Model of package rebed (src/rebed.go): the level-by-level Walk over an  *)
(* embed.FS and the policies Tree, Touch, Write, Patch and Create that     *)
(* project the embedded tree onto the host filesystem.                     *)
(*                                                                         *)
(* A path string is a sequence of one-character strings; every file name   *)
(* of the model is one character long.  A path key (of the embedded store  *)
(* or of the host) is the sequence of the components of a path string.     *)
(***************************************************************************)
EXTENDS Naturals, Integers, Sequences, FiniteSets, TLC

\* ------------------------------------------------------------------ bounds
\* Largest number of nodes (files and directories) of an embedded tree.
MaxNodes == 4
\* Cap on the length of the event log of one Walk call; the code itself
\* lists each directory once and visits each node once.
MaxEvents == 12

\* ------------------------------------------------------ the embedded store
\* Entry names, in the byte order in which embed.FS.ReadDir reports them.
NameSeq == <<"a", "b">>

Names == {NameSeq[k] : k \in 1..Len(NameSeq)}

Pre(name, S) == {<<name>> \o p : p \in S}

RECURSIVE Forests(_, _), NodeTrees(_)
\* The subtrees with exactly k nodes that can hang under one name, each
\* given as the set of its file paths relative to that name.  embed.FS holds
\* files only, so every directory has a file below it.
NodeTrees(k) ==
    IF k = 0 THEN {{}}
    ELSE IF k = 1 THEN {{<<>>}}
    ELSE Forests(Len(NameSeq), k - 1)

\* The forests of exactly m nodes under the first k names.
Forests(k, m) ==
    IF k = 0 THEN (IF m = 0 THEN {{}} ELSE {})
    ELSE UNION { { f \cup Pre(<<NameSeq[k]>>, x) :
                     f \in Forests(k - 1, m - j), x \in NodeTrees(j) } :
                 j \in 0..m }

EmbedTrees == UNION {Forests(Len(NameSeq), m) : m \in 0..MaxNodes}

Prefixes(p) == {SubSeq(p, 1, k) : k \in 0..Len(p)}

\* Directories of the embedded tree fs (a set of file keys), root excluded.
DirsOf(fs) == {d \in UNION {Prefixes(p) : p \in fs} : d # <<>> /\ d \notin fs}

NodesOf(fs) == fs \cup DirsOf(fs)

\* Bytes of the embedded file at key p: distinct files hold distinct,
\* non-empty contents.
FileData(p) == [k \in 1..Len(p) |-> p[k][1]]

\* ------------------------------------------------------------ path strings
\* sanitize: strings.ReplaceAll(embedPath, "\\", "/").
sanitizeKeepsBackslash(embedPath) == embedPath

sanitize(embedPath) ==
    [k \in 1..Len(embedPath) |->
        IF embedPath[k] = "\\" THEN "/" ELSE embedPath[k]]

RECURSIVE SplitFrom(_, _, _, _)
SplitFrom(s, seps, k, cur) ==
    IF k > Len(s) THEN <<cur>>
    ELSE IF s[k] \in seps THEN <<cur>> \o SplitFrom(s, seps, k + 1, <<>>)
    ELSE SplitFrom(s, seps, k + 1, Append(cur, s[k]))

\* The components of s between the separators seps (empty ones included).
Split(s, seps) == SplitFrom(s, seps, 1, <<>>)

RECURSIVE JoinWith(_, _)
JoinWith(comps, sep) ==
    IF comps = <<>> THEN <<>>
    ELSE IF Len(comps) = 1 THEN comps[1]
    ELSE comps[1] \o <<sep>> \o JoinWith(Tail(comps), sep)

\* os.IsPathSeparator of a build whose os.PathSeparator is sep: '/' on Unix,
\* '/' and '\' on Windows.
PathSeps(sep) == IF sep = "\\" THEN {"/", "\\"} ELSE {"/"}

IsRealComp(c) == c # <<>> /\ c # <<".">>

\* filepath.Clean on the relative, ".."-free paths the package builds: drops
\* empty and "." components and rejoins with os.PathSeparator.
Clean(s, sep) ==
    LET comps == SelectSeq(Split(s, PathSeps(sep)), IsRealComp)
    IN  IF comps = <<>> THEN <<".">> ELSE JoinWith(comps, sep)

IsNonEmpty(e) == e # <<>>

\* filepath.Join(elems...): the non-empty elements joined by
\* os.PathSeparator, then cleaned.
Join(elems, sep) ==
    LET ne == SelectSeq(elems, IsNonEmpty)
    IN  IF ne = <<>> THEN <<>> ELSE Clean(JoinWith(ne, sep), sep)

\* ------------------------------------------------------------------ errors
Nil == [kind |-> "nil"]

\* var ErrExist error = os.ErrExist
ErrExist == [kind |-> "ErrExist"]

\* *fs.PathError{Op, Path, Err}
PathError(op, path, errno) == [kind |-> errno, op |-> op, path |-> path]

\* fmt.Errorf(msg + ": %v", err): a new error value that keeps only the text
\* of err (no %w, so nothing unwraps it).
Errorf(msg, err) == [kind |-> "errorString", msg |-> msg, of |-> err]

\* os.IsNotExist: ErrNotExist itself or a PathError carrying it / ENOENT.
IsNotExistAnyError(err) == err # Nil

IsNotExist(err) == err.kind = "ENOENT"

\* os.IsExist: ErrExist itself or a PathError carrying it / EEXIST.
IsExist(err) == err.kind = "ErrExist"

\* ------------------------------------------------- embed.FS (collaborator)
\* The key embed.FS looks a name up by: "." is the root, any other name is
\* taken literally, split at '/'.
EmbedKey(name) == IF name = <<".">> THEN <<>> ELSE Split(name, {"/"})

EmbedIsDir(fs, key) == key = <<>> \/ key \in DirsOf(fs)

\* fs.DirEntry values of the children of directory key, sorted by name.
EntriesOf(fs, key) ==
    LET here(c) == Append(key, <<c>>) \in NodesOf(fs)
        kids == SelectSeq(NameSeq, here)
    IN  [k \in 1..Len(kids) |->
            [name |-> <<kids[k]>>,
             isDir |-> Append(key, <<kids[k]>>) \in DirsOf(fs)]]

\* fsys.ReadDir(name): the entries, or the error of a missing name or of a
\* name that is a file.
ReadDir(fs, name) ==
    LET key == EmbedKey(name)
    IN  IF EmbedIsDir(fs, key) THEN [err |-> Nil, items |-> EntriesOf(fs, key)]
        ELSE IF key \in fs
             THEN [err |-> PathError("read", name, "not a directory"), items |-> <<>>]
        ELSE [err |-> PathError("open", name, "ENOENT"), items |-> <<>>]

\* fsys.Open(name) of a file: its bytes, or the error of a missing name.
Open(fs, name) ==
    LET key == EmbedKey(name)
    IN  IF key \in fs THEN [err |-> Nil, data |-> FileData(key)]
        ELSE IF EmbedIsDir(fs, key) THEN [err |-> Nil, data |-> <<>>]
        ELSE [err |-> PathError("open", name, "ENOENT"), data |-> <<>>]

\* ------------------------------------------- host filesystem (collaborator)
DirNode == [dir |-> TRUE, data |-> <<>>]

FileNode(data) == [dir |-> FALSE, data |-> data]

\* A directory the process has no search permission on: the directory can
\* be stat'ed, nothing below it can be reached.
LockedDir == [dir |-> TRUE, data |-> <<>>, locked |-> TRUE]

IsLocked(nd) == "locked" \in DOMAIN nd

\* The key the host resolves a path string to: its components at the
\* build's separators, "." and empty components skipped.  <<>> is the
\* working directory.
HostKey(path, sep) == SelectSeq(Split(path, PathSeps(sep)), IsRealComp)

\* An ancestor of key is a directory without search permission.
Denied(h, key) ==
    \E q \in Prefixes(key) : q # key /\ q \in DOMAIN h /\ IsLocked(h[q])

\* The error of resolving a key the host cannot reach: EACCES below a
\* directory without search permission, ENOTDIR when a file stands where a
\* directory is needed, ENOENT otherwise.
MissingErrno(h, key) ==
    IF Denied(h, key) THEN "EACCES"
    ELSE IF \E q \in Prefixes(key) : q \in DOMAIN h /\ ~h[q].dir
    THEN "ENOTDIR" ELSE "ENOENT"

\* os.Stat(path): only the error matters to the package.
Stat(h, path, sep) ==
    LET key == HostKey(path, sep)
    IN  IF key \in DOMAIN h /\ ~Denied(h, key) THEN Nil
        ELSE PathError("stat", path, MissingErrno(h, key))

\* os.MkdirAll(path, folderPerm): path and all its missing ancestors become
\* directories; fails, changing nothing, when path or an ancestor is a file
\* or an ancestor cannot be searched.
MkdirAllFailsIfExists(h, path, sep) ==
    LET key == HostKey(path, sep)
    IN  IF key \in DOMAIN h
        THEN [err |-> PathError("mkdir", path, "EEXIST"), host |-> h]
        ELSE IF MissingErrno(h, key) # "ENOENT"
        THEN [err |-> PathError("mkdir", path, MissingErrno(h, key)), host |-> h]
        ELSE [err |-> Nil,
              host |-> [q \in DOMAIN h \cup Prefixes(key) |->
                           IF q \in DOMAIN h THEN h[q] ELSE DirNode]]

MkdirAll(h, path, sep) ==
    LET key == HostKey(path, sep)
    IN  IF MissingErrno(h, key) # "ENOENT"
        THEN [err |-> PathError("mkdir", path, MissingErrno(h, key)), host |-> h]
        ELSE [err |-> Nil,
              host |-> [q \in DOMAIN h \cup Prefixes(key) |->
                           IF q \in DOMAIN h THEN h[q] ELSE DirNode]]

\* os.Create(path): O_RDWR|O_CREATE|O_TRUNC.  The parent must be a
\* directory and path must not be one; the file is left empty.
OsCreateKeepsData(h, path, sep) ==
    LET key == HostKey(path, sep)
    IN  IF key \in DOMAIN h /\ ~Denied(h, key)
        THEN IF h[key].dir THEN [err |-> PathError("open", path, "EISDIR"), host |-> h]
             ELSE [err |-> Nil, host |-> h]
        ELSE IF MissingErrno(h, key) = "ENOENT"
                /\ SubSeq(key, 1, Len(key) - 1) \in DOMAIN h
             THEN [err |-> Nil, host |-> (key :> FileNode(<<>>)) @@ h]
        ELSE [err |-> PathError("open", path, MissingErrno(h, key)), host |-> h]

OsCreate(h, path, sep) ==
    LET key == HostKey(path, sep)
    IN  IF key \in DOMAIN h /\ ~Denied(h, key)
        THEN IF h[key].dir THEN [err |-> PathError("open", path, "EISDIR"), host |-> h]
             ELSE [err |-> Nil, host |-> [h EXCEPT ![key] = FileNode(<<>>)]]
        ELSE IF MissingErrno(h, key) = "ENOENT"
                /\ SubSeq(key, 1, Len(key) - 1) \in DOMAIN h
             THEN [err |-> Nil, host |-> (key :> FileNode(<<>>)) @@ h]
        ELSE [err |-> PathError("open", path, MissingErrno(h, key)), host |-> h]

\* io.Copy(fo, fi): the bytes are written after what the file holds.
IoCopy(h, path, sep, data) ==
    LET key == HostKey(path, sep)
    IN  [h EXCEPT ![key] = FileNode(h[key].data \o data)]

\* ---------------------------------------------------------------- policies
\* The destination root handed to every policy (outputPath).
OutputPath == <<"o">>

\* embedCopyToFile(fsys, embedPath, path)
\* (opened: the name handed to fsys.Open)
embedCopyToFile(fs, h, embedPath, path, sep) ==
    LET name == sanitize(embedPath)
        fi == Open(fs, name)
        fo == OsCreate(h, path, sep)
    IN  IF fi.err # Nil
        THEN [err |-> Errorf("opening embedded file", fi.err), host |-> h,
              opened |-> {name}]
        ELSE IF fo.err # Nil
        THEN [err |-> fo.err, host |-> h, opened |-> {name}]
        ELSE [err |-> Nil, host |-> IoCopy(fo.host, path, sep, fi.data),
              opened |-> {name}]

\* The visitor of Tree.
TreeVisitTouches(fs, h, dirpath, de, sep) ==
    LET fullpath == Join(<<OutputPath, dirpath, de.name>>, sep)
        err == Stat(h, fullpath, sep)
    IN  IF de.isDir THEN MkdirAll(h, fullpath, sep)
        ELSE IF IsNotExist(err) THEN OsCreate(h, fullpath, sep)
        ELSE [err |-> err, host |-> h]

TreeVisit(fs, h, dirpath, de, sep) ==
    LET fullpath == Join(<<OutputPath, dirpath, de.name>>, sep)
    IN  IF de.isDir THEN MkdirAll(h, fullpath, sep)
        ELSE [err |-> Nil, host |-> h]

\* The visitor of Touch.
TouchVisitSkipsCreate(fs, h, dirpath, de, sep) ==
    LET fullpath == Join(<<OutputPath, dirpath, de.name>>, sep)
    IN  IF de.isDir THEN MkdirAll(h, fullpath, sep)
        ELSE [err |-> Nil, host |-> h]

TouchVisitCopies(fs, h, dirpath, de, sep) ==
    LET fullpath == Join(<<OutputPath, dirpath, de.name>>, sep)
        err == Stat(h, fullpath, sep)
    IN  IF de.isDir THEN MkdirAll(h, fullpath, sep)
        ELSE IF IsNotExist(err)
             THEN embedCopyToFile(fs, h, Join(<<dirpath, de.name>>, sep), fullpath, sep)
        ELSE [err |-> err, host |-> h]

TouchVisit(fs, h, dirpath, de, sep) ==
    LET fullpath == Join(<<OutputPath, dirpath, de.name>>, sep)
        err == Stat(h, fullpath, sep)
    IN  IF de.isDir THEN MkdirAll(h, fullpath, sep)
        ELSE IF IsNotExist(err) THEN OsCreate(h, fullpath, sep)
        ELSE [err |-> err, host |-> h]

\* The visitor of Write.
WriteVisitFlat(fs, h, dirpath, de, sep) ==
    LET embedPath == sanitize(Join(<<dirpath, de.name>>, sep))
        fullpath == Join(<<OutputPath, de.name>>, sep)
    IN  IF de.isDir THEN MkdirAll(h, fullpath, sep)
        ELSE embedCopyToFile(fs, h, embedPath, fullpath, sep)

WriteVisit(fs, h, dirpath, de, sep) ==
    LET embedPath == sanitize(Join(<<dirpath, de.name>>, sep))
        fullpath == Join(<<OutputPath, embedPath>>, sep)
    IN  IF de.isDir THEN MkdirAll(h, fullpath, sep)
        ELSE embedCopyToFile(fs, h, embedPath, fullpath, sep)

\* The visitor of Patch.
PatchVisitAlwaysCopies(fs, h, dirpath, de, sep) ==
    LET embedPath == sanitize(Join(<<dirpath, de.name>>, sep))
        fullpath == Join(<<OutputPath, embedPath>>, sep)
    IN  IF de.isDir THEN MkdirAll(h, fullpath, sep)
        ELSE embedCopyToFile(fs, h, embedPath, fullpath, sep)

PatchVisit(fs, h, dirpath, de, sep) ==
    LET embedPath == sanitize(Join(<<dirpath, de.name>>, sep))
        fullpath == Join(<<OutputPath, embedPath>>, sep)
        err == Stat(h, fullpath, sep)
    IN  IF de.isDir THEN MkdirAll(h, fullpath, sep)
        ELSE IF IsNotExist(err) THEN embedCopyToFile(fs, h, embedPath, fullpath, sep)
        ELSE [err |-> err, host |-> h]

\* The visitor of the pre-pass of Create.
CreateVisitMakesDirs(fs, h, dirpath, de, sep) ==
    LET embedPath == Join(<<dirpath, de.name>>, sep)
        fullpath == Join(<<OutputPath, embedPath>>, sep)
        err == Stat(h, fullpath, sep)
    IN  IF de.isDir THEN MkdirAll(h, fullpath, sep)
        ELSE IF IsNotExist(err) THEN [err |-> Nil, host |-> h]
        ELSE IF err # Nil THEN [err |-> err, host |-> h]
        ELSE [err |-> ErrExist, host |-> h]

CreateVisitDirsConflict(fs, h, dirpath, de, sep) ==
    LET embedPath == Join(<<dirpath, de.name>>, sep)
        fullpath == Join(<<OutputPath, embedPath>>, sep)
        err == Stat(h, fullpath, sep)
    IN  IF IsNotExist(err) THEN [err |-> Nil, host |-> h]
        ELSE IF err # Nil THEN [err |-> err, host |-> h]
        ELSE [err |-> ErrExist, host |-> h]

CreateVisit(fs, h, dirpath, de, sep) ==
    LET embedPath == Join(<<dirpath, de.name>>, sep)
        fullpath == Join(<<OutputPath, embedPath>>, sep)
        err == Stat(h, fullpath, sep)
    IN  IF de.isDir THEN [err |-> Nil, host |-> h]
        ELSE IF IsNotExist(err) THEN [err |-> Nil, host |-> h]
        ELSE IF err # Nil THEN [err |-> err, host |-> h]
        ELSE [err |-> ErrExist, host |-> h]

\* The error a caller's own visitor may return (theError of TestWalkError).
Oops == [kind |-> "oops"]

\* What the visitor named v does at entry de of directory dirpath; uerr is
\* what the visitor of a direct caller of Walk chooses to return.
RunVisitor(v, fs, h, dirpath, de, sep, uerr) ==
    CASE v = "Tree"   -> TreeVisit(fs, h, dirpath, de, sep)
      [] v = "Touch"  -> TouchVisit(fs, h, dirpath, de, sep)
      [] v = "Write"  -> WriteVisit(fs, h, dirpath, de, sep)
      [] v = "Patch"  -> PatchVisit(fs, h, dirpath, de, sep)
      [] v = "Create" -> CreateVisit(fs, h, dirpath, de, sep)
      [] OTHER        -> [err |-> uerr, host |-> h]

\* ------------------------------------------------------------------- state
VARIABLES
    Separator,  \* os.PathSeparator of the build: "/" or "\\"
    fsys,       \* the embedded tree: the set of its file keys
    caller,     \* the exported function called: a policy, or "Walk"
    startPath,  \* Walk's startPath
    host,       \* host filesystem: key -> node, for the keys that exist
    host0,      \* host when the current call began
    again,      \* the call repeats a call that returned nil
    visitor,    \* the visitor f of the current Walk
    pc,         \* "readdir", "visit", "loop" or "done"
    top,        \* Walk is in its first WalkDir (the start level)
    target,     \* the path handed to the pending WalkDir
    folders,    \* Walk's buffer of folders to process
    n,          \* folders of the current round
    i,          \* index of the round's next folder
    dirpath,    \* WalkDir's sanitized startPath
    items,      \* entries WalkDir has still to hand to f
    events,     \* log of the current Walk: listings and visitor calls
    preEvents,  \* log of the pre-pass of Create, once Patch has begun
    ferr,       \* the first error the visitor returned in this call
    opened,     \* the names this call has handed to fsys.Open
    result      \* what the call returned

vars == <<Separator, fsys, caller, startPath, host, host0, again, visitor, pc,
          top, target, folders, n, i, dirpath, items, events, preEvents, ferr,
          opened, result>>

input == <<Separator, fsys, caller, startPath>>

Policies == {"Tree", "Touch", "Write", "Patch", "Create"}

\* Start paths a direct caller of Walk passes: the root, directories or files
\* of the tree in either separator style, and a name the tree never holds.
StartPaths ==
    {<<".">>, <<"a">>, <<"b">>, <<"z">>, <<"a", "/", "a">>, <<"a", "\\", "a">>}

\* The path string of key under the destination root.
DestKey(key) == HostKey(OutputPath, "/") \o key

\* Host with only the working directory: the destination root is missing.
BareHost == (<<>> :> DirNode)

EmptyDest == (DestKey(<<>>) :> DirNode) @@ BareHost

\* The destination root is there but cannot be searched.
LockedDest == (DestKey(<<>>) :> LockedDir) @@ BareHost

\* Content of a file that was on the host before the call.
OldData == <<"o", "l", "d">>

\* Host whose destination holds the node nd at key, below directories.
HostWith(key, nd) ==
    [q \in DOMAIN EmptyDest \cup Prefixes(DestKey(key)) |->
        IF q = DestKey(key) THEN nd ELSE DirNode]

\* Keys directly below the root or below a directory of the tree: the nodes
\* of the tree and their possible siblings.
PreKeys(fs) ==
    {Append(d, <<c>>) : d \in {<<>>} \cup DirsOf(fs), c \in Names}

\* Destinations a policy is run against: root missing, root empty, root
\* without search permission, or one node (a file or a directory) already
\* there.
HostsFor(fs) ==
    {BareHost, EmptyDest, LockedDest}
      \cup {HostWith(key, nd) : key \in PreKeys(fs), nd \in {DirNode, FileNode(OldData)}}

\* Walk's entry: folders := make([]string, 0); WalkDir(fsys, startPath, ...)
WalkEntry(path) ==
    /\ pc' = "readdir"
    /\ top' = TRUE
    /\ target' = path
    /\ folders' = <<>>
    /\ n' = 0
    /\ i' = 0
    /\ dirpath' = <<>>
    /\ items' = <<>>
    /\ events' = <<>>

Init ==
    /\ Separator \in {"/", "\\"}
    /\ fsys \in EmbedTrees
    /\ \/ caller = "Walk" /\ startPath \in StartPaths /\ host = BareHost
       \/ caller \in Policies /\ startPath = <<".">> /\ host \in HostsFor(fsys)
    /\ host0 = host
    /\ again = FALSE
    /\ visitor = caller
    /\ pc = "readdir"
    /\ top = TRUE
    /\ target = startPath
    /\ folders = <<>>
    /\ n = 0
    /\ i = 0
    /\ dirpath = <<>>
    /\ items = <<>>
    /\ events = <<>>
    /\ preEvents = <<>>
    /\ ferr = Nil
    /\ opened = {}
    /\ result = Nil

\* ----------------------------------------------------------------- actions
ListEvent(path) == [ev |-> "list", path |-> path, name |-> <<>>, isDir |-> TRUE]

VisitEvent(path, de) ==
    [ev |-> "visit", path |-> path, name |-> de.name, isDir |-> de.isDir]

\* What Walk returns when one of its WalkDir calls returned err # nil: in
\* the start level the error is wrapped when no folder has been queued.
WalkErrorNeverWraps(err, isTop, fl) == err

WalkErrorWrapsStartLevel(err, isTop, fl) ==
    IF isTop THEN Errorf("no folder found", err) ELSE err

WalkError(err, isTop, fl) ==
    IF isTop /\ Len(fl) = 0 THEN Errorf("no folder found", err) ELSE err

QueuedInFront(fl, path, de, sep) ==
    IF de.isDir THEN <<Join(<<path, de.name>>, sep)>> \o fl ELSE fl

\* The folders Walk's wrapper of f holds after entry de of dirpath.
Queued(fl, path, de, sep) ==
    IF de.isDir THEN Append(fl, Join(<<path, de.name>>, sep)) ELSE fl

\* What the visitor of a direct caller of Walk may return.
UserErrors(v) == IF v = "Walk" THEN {Nil, Oops} ELSE {Nil}

\* WalkDir: startPath = sanitize(startPath); items, err := fsys.ReadDir(startPath)
DoReadDir ==
    /\ pc = "readdir"
    /\ Len(events) < MaxEvents
    /\ LET p == sanitize(target)
           r == ReadDir(fsys, p)
       IN  /\ events' = Append(events, ListEvent(p))
           /\ dirpath' = p
           /\ items' = r.items
           /\ IF r.err # Nil
              THEN pc' = "done" /\ result' = WalkError(r.err, top, folders)
              ELSE pc' = "visit" /\ result' = result
    /\ UNCHANGED <<input, host, host0, again, visitor, top, target, folders, n,
                   i, preEvents, ferr, opened>>

\* WalkDir's loop: if err := f(startPath, item); err != nil { return err }
AfterVisitGoesOn(err) == "visit"

AfterVisit(err) == IF err # Nil THEN "done" ELSE "visit"

\* The names a visitor call handed to fsys.Open.
OpenedBy(r) == IF "opened" \in DOMAIN r THEN r.opened ELSE {}

\* WalkDir's loop body: Walk's wrapper queues a directory, then calls f.
Visit ==
    /\ pc = "visit"
    /\ items # <<>>
    /\ Len(events) < MaxEvents
    /\ \E uerr \in UserErrors(visitor) :
         LET de == Head(items)
             fl == Queued(folders, dirpath, de, Separator)
             r == RunVisitor(visitor, fsys, host, dirpath, de, Separator, uerr)
         IN  /\ folders' = fl
             /\ host' = r.host
             /\ opened' = opened \cup OpenedBy(r)
             /\ events' = Append(events, VisitEvent(dirpath, de))
             /\ items' = Tail(items)
             /\ pc' = AfterVisit(r.err)
             /\ ferr' = IF r.err # Nil /\ ferr = Nil THEN r.err ELSE ferr
             /\ result' = IF r.err # Nil THEN WalkError(r.err, top, fl) ELSE result
    /\ UNCHANGED <<input, host0, again, visitor, top, target, n, i, dirpath,
                   preEvents>>

\* WalkDir returns nil: after the start level n := len(folders); inside the
\* round i++.
EndDir ==
    /\ pc = "visit"
    /\ items = <<>>
    /\ pc' = "loop"
    /\ top' = FALSE
    /\ IF top THEN n' = Len(folders) /\ i' = 0
              ELSE n' = n /\ i' = i + 1
    /\ UNCHANGED <<input, host, host0, again, visitor, target, folders,
                   dirpath, items, events, preEvents, ferr, opened, result>>

\* for i := 0; i < n; i++ { err = WalkDir(fsys, folders[i], ...) }
Descend ==
    /\ pc = "loop"
    /\ n # 0
    /\ i < n
    /\ target' = folders[i + 1]
    /\ pc' = "readdir"
    /\ UNCHANGED <<input, host, host0, again, visitor, top, folders, n, i,
                   dirpath, items, events, preEvents, ferr, opened, result>>

\* folders = folders[n : n+newFolders]: the round's n folders are dropped.
ShiftedKeepsRound(fl, k) == SubSeq(fl, 1, k)

ShiftedKeepsLast(fl, k) == SubSeq(fl, k, Len(fl))

ShiftedDropsOne(fl, k) == SubSeq(fl, k + 2, Len(fl))

Shifted(fl, k) == SubSeq(fl, k + 1, k + (Len(fl) - k))

Shift ==
    /\ pc = "loop"
    /\ n # 0
    /\ i = n
    /\ folders' = Shifted(folders, n)
    /\ n' = Len(folders')
    /\ i' = 0
    /\ UNCHANGED <<input, host, host0, again, visitor, pc, top, target,
                   dirpath, items, events, preEvents, ferr, opened, result>>

\* The loop ends (n = 0) and Walk returns nil.  In Create the pre-pass is
\* over and Patch starts its own Walk; otherwise the call returns nil.
ReturnNil ==
    /\ pc = "loop"
    /\ n = 0
    /\ IF caller = "Create" /\ visitor = "Create"
       THEN /\ visitor' = "Patch"
            /\ preEvents' = events
            /\ WalkEntry(<<".">>)
            /\ result' = result
       ELSE /\ pc' = "done"
            /\ result' = Nil
            /\ UNCHANGED <<visitor, preEvents, top, target, folders, n, i,
                           dirpath, items, events>>
    /\ UNCHANGED <<input, host, host0, again, ferr, opened>>

\* The caller makes the same call again on the destination as it now is
\* (TestCreateError calls Create twice).
Again ==
    /\ pc = "done"
    /\ result = Nil
    /\ host0' = host
    /\ again' = TRUE
    /\ visitor' = caller
    /\ WalkEntry(startPath)
    /\ preEvents' = <<>>
    /\ opened' = {}
    /\ UNCHANGED <<input, host, ferr, result>>

Next ==
    \/ DoReadDir
    \/ Visit
    \/ EndDir
    \/ Descend
    \/ Shift
    \/ ReturnNil
    \/ Again

Spec == Init /\ [][Next]_vars

\* The direct calls of Walk, with a visitor free to return an error at any
\* entry.
WalkInit == Init /\ caller = "Walk"

\* The call runs on one goroutine with no suspension points: a step that
\* can be taken is taken.

WalkFairSpec == WalkInit /\ [][Next]_vars /\ WF_vars(Next)

\* ------------------------------------------------------------------ claims
Returned == pc = "done"

Succeeded == pc = "done" /\ result = Nil

OnHost(h, key) == DestKey(key) \in DOMAIN h

IsHostDir(h, key) == OnHost(h, key) /\ h[DestKey(key)].dir

IsHostFile(h, key) == OnHost(h, key) /\ ~h[DestKey(key)].dir

\* The log holds a visitor call for the entry at key.
Visited(log, key) ==
    \E k \in 1..Len(log) :
        /\ log[k].ev = "visit"
        /\ EmbedKey(log[k].path) \o <<log[k].name>> = key

\* C1 as stated: after any policy returned nil, every embedded file and
\* directory has a host node of the same kind at the mirrored path.
C1_AllPoliciesMirrorKinds ==
    (caller \in Policies /\ Succeeded) =>
        /\ \A d \in DirsOf(fsys) : IsHostDir(host, d)
        /\ \A f \in fsys : IsHostFile(host, f)

\* C1 amended: after any policy returned nil every embedded directory is a
\* host directory; after Touch, Write, Patch or Create returned nil every
\* embedded file has a host node at the mirrored path, a regular file unless
\* a directory stood there before a Touch or Patch call.  Tree makes no file.
C1_MirrorAfterSuccess ==
    (caller \in Policies /\ Succeeded) =>
        /\ \A d \in DirsOf(fsys) : IsHostDir(host, d)
        /\ caller # "Tree" =>
              \A f \in fsys :
                  /\ OnHost(host, f)
                  /\ \/ IsHostFile(host, f)
                     \/ caller \in {"Touch", "Patch"} /\ IsHostDir(host0, f)

C1_Witness ==
    /\ caller = "Create"
    /\ Succeeded
    /\ ~again
    /\ Cardinality(fsys) >= 2
    /\ \E f \in fsys : Len(f) >= 3
    /\ \A f \in fsys : IsHostFile(host, f) /\ ~OnHost(host0, f)

\* C2: after Write returned nil every embedded file's host mirror holds
\* exactly the embedded bytes, whatever was or was not there before.
C2_WriteReplacesContent ==
    (caller = "Write" /\ Succeeded) =>
        \A f \in fsys :
            OnHost(host, f) /\ host[DestKey(f)] = FileNode(FileData(f))

C2_Witness ==
    /\ caller = "Write"
    /\ Succeeded
    /\ \E f \in fsys : IsHostFile(host0, f) /\ host0[DestKey(f)].data = OldData
    /\ \E f \in fsys : ~OnHost(host0, f)

\* C3: during and after Touch and Patch, a file that was on the host at the
\* target path of an embedded file keeps its content, whether or not the
\* call goes on to fail.
C3_ExistingFilesKept ==
    caller \in {"Touch", "Patch"} =>
        \A f \in fsys :
            IsHostFile(host0, f) =>
                OnHost(host, f) /\ host[DestKey(f)] = host0[DestKey(f)]

C3_Witness ==
    /\ caller = "Patch"
    /\ Returned
    /\ host # host0
    /\ \E f \in fsys :
          /\ IsHostFile(host0, f)
          /\ host0[DestKey(f)].data = OldData
          /\ Visited(events, f)

\* C4 as stated: Create returns an error os.IsExist recognises whenever an
\* embedded file's target path is a host file when the call begins, so also
\* when it repeats a Create that returned nil.
C4_ConflictIsErrExist ==
    (caller = "Create" /\ Returned /\ \E f \in fsys : IsHostFile(host0, f)) =>
        IsExist(result)

\* C5: while the pre-pass of Create runs, and when it ends on a conflict,
\* the host is as it was when Create was called; Patch starts only after
\* the pre-pass has visited every node and found no embedded file's target
\* on the host.
C5_ConflictLeavesHost ==
    caller = "Create" =>
        /\ visitor = "Create" => host = host0
        /\ ferr = ErrExist => visitor = "Create" /\ Returned
        /\ visitor = "Patch" =>
              /\ \A p \in NodesOf(fsys) : Visited(preEvents, p)
              /\ \A f \in fsys : ~OnHost(host0, f)

C5_Witness ==
    /\ caller = "Create"
    /\ Returned
    /\ ferr = ErrExist
    /\ DirsOf(fsys) # {}
    /\ Len(events) >= 4
    /\ host = host0

\* C6 as stated: whenever the visitor returned a non-nil error, at any entry
\* of any level, Walk returns exactly that error value.
C6_VisitorErrorVerbatim ==
    (Returned /\ ferr # Nil) => result = ferr

\* C7: once the visitor has returned a non-nil error, no further visitor
\* call and no further listing happens.
C7_ErrorIsLastEvent ==
    [][ferr # Nil => events' = events]_vars

C7_Witness ==
    /\ ferr = Oops
    /\ items # <<>>
    /\ folders # <<>>
    /\ ~top

\* The key of Walk's start path in the embedded store.
StartKey == EmbedKey(sanitize(startPath))

StartMissing == StartKey \notin NodesOf(fsys) \cup {<<>>}

VisitCount(log) == Cardinality({k \in 1..Len(log) : log[k].ev = "visit"})

\* C8: a Walk whose start path is not in the embedded store never calls the
\* visitor and returns the listing error wrapped as "no folder found".
C8_MissingStartPath ==
    (caller = "Walk" /\ StartMissing) =>
        /\ VisitCount(events) = 0
        /\ Returned =>
              result = Errorf("no folder found",
                              PathError("open", sanitize(startPath), "ENOENT"))

C8_Witness ==
    /\ caller = "Walk"
    /\ StartMissing
    /\ Returned
    /\ DirsOf(fsys) # {}

Descendants(fs, key) ==
    {p \in NodesOf(fs) : Len(p) > Len(key) /\ SubSeq(p, 1, Len(key)) = key}

\* The forward-slash path string of a key of the embedded store.
PathString(key) == IF key = <<>> THEN <<".">> ELSE JoinWith(key, "/")

\* The visitor call Walk owes the node at key p: its parent's path and its
\* directory entry.
OwedVisit(fs, p) ==
    VisitEvent(PathString(SubSeq(p, 1, Len(p) - 1)),
               [name |-> p[Len(p)], isDir |-> p \in DirsOf(fs)])

Occurrences(log, e) == Cardinality({k \in 1..Len(log) : log[k] = e})

\* C9: when the visitor never returns an error, a Walk from a directory
\* returns nil after calling the visitor exactly once for every proper
\* descendant of the start path, with the parent's path and the entry.
C9_EveryNodeOnce ==
    (Returned /\ ferr = Nil /\ EmbedIsDir(fsys, StartKey)) =>
        /\ result = Nil
        /\ \A p \in Descendants(fsys, StartKey) :
              Occurrences(events, OwedVisit(fsys, p)) = 1
        /\ VisitCount(events) = Cardinality(Descendants(fsys, StartKey))

C9_Witness ==
    /\ caller = "Walk"
    /\ Succeeded
    /\ startPath = <<"a">>
    /\ Cardinality(Descendants(fsys, StartKey)) >= 3
    /\ \E p \in fsys : Len(p) >= 3

\* C10: every Walk returns, with nil or with an error, and when it returns
\* nil the pending-folder queue is empty.
C10_WalkTerminates ==
    /\ (pc # "done") ~> (pc = "done")
    /\ [](Succeeded => folders = <<>>)

C10_Witness ==
    /\ Succeeded
    /\ folders = <<>>
    /\ VisitCount(events) >= 4
    /\ \E p \in fsys : Len(p) >= 3

\* The regular files of host h, with their contents.
FilesOn(h) == {<<q, h[q].data>> : q \in {x \in DOMAIN h : ~h[x].dir}}

DirsOn(h) == {q \in DOMAIN h : h[q].dir}

\* C11: a Tree run that repeats a Tree run that returned nil returns nil
\* and leaves the host's directories (and the whole host) as they were.
C11_TreeIdempotent ==
    (caller = "Tree" /\ again) =>
        /\ DirsOn(host) = DirsOn(host0)
        /\ host = host0
        /\ Returned => result = Nil

C11_Witness ==
    /\ caller = "Tree"
    /\ again
    /\ Returned
    /\ Cardinality(DirsOf(fsys)) >= 2
    /\ \A d \in DirsOf(fsys) : IsHostDir(host, d)

\* C12: a Touch, Write or Patch run that repeats a run of the same policy
\* that returned nil returns nil and leaves every host node, its kind and
\* its content as they were.
C12_PoliciesIdempotent ==
    (caller \in {"Touch", "Write", "Patch"} /\ again /\ Returned) =>
        result = Nil /\ host = host0

C12_Witness ==
    /\ caller = "Write"
    /\ again
    /\ Returned
    /\ Cardinality(fsys) >= 2
    /\ host = host0

\* The host reports the target path of the embedded node at key as absent.
Absent(h, key) ==
    ~OnHost(h, key) /\ MissingErrno(h, DestKey(key)) = "ENOENT"

\* C13: when the destination root exists, the host reports every embedded
\* file's target path absent and whatever stands at an embedded directory's
\* path is a directory, Create returns nil and every embedded file is then a host
\* file with exactly the embedded bytes.
C13_DirsNeverConflict ==
    (/\ caller = "Create"
     /\ Returned
     /\ IsHostDir(host0, <<>>)
     /\ \A f \in fsys : Absent(host0, f)
     /\ \A d \in DirsOf(fsys) : OnHost(host0, d) => IsHostDir(host0, d)) =>
        /\ result = Nil
        /\ \A f \in fsys :
              OnHost(host, f) /\ host[DestKey(f)] = FileNode(FileData(f))

C13_Witness ==
    /\ caller = "Create"
    /\ ~again
    /\ Succeeded
    /\ \E d \in DirsOf(fsys) :
          /\ IsHostDir(host0, d)
          /\ \E f \in fsys : Len(f) > Len(d) /\ SubSeq(f, 1, Len(d)) = d
    /\ \A f \in fsys : ~OnHost(host0, f)

\* C14: after Touch returned nil, every embedded file whose target path was
\* not on the host before the call is an empty host file.
C14_TouchMakesEmptyFiles ==
    (caller = "Touch" /\ Succeeded) =>
        \A f \in fsys :
            ~OnHost(host0, f) =>
                OnHost(host, f) /\ host[DestKey(f)] = FileNode(<<>>)

C14_Witness ==
    /\ caller = "Touch"
    /\ ~again
    /\ Succeeded
    /\ Cardinality({f \in fsys : ~OnHost(host0, f)}) >= 2

\* C15: in every state of a Tree run the host's regular files and their
\* contents are those the host had when the run began.
C15_TreeMakesNoFile ==
    caller = "Tree" => FilesOn(host) = FilesOn(host0)

C15_Witness ==
    /\ caller = "Tree"
    /\ Returned
    /\ host # host0
    /\ \E f \in fsys :
          IsHostFile(host0, f) /\ Len(f) >= 2 /\ Visited(events, f)
    /\ \E f \in fsys : ~OnHost(host, f) /\ Visited(events, f)

NoBackslash(path) == \A k \in 1..Len(path) : path[k] # "\\"

\* A start path written with backslashes and the same path written with
\* forward slashes.
BackslashStart == <<"a", "\\", "a">>

ForwardStart == <<"a", "/", "a">>

\* The entries the visitor has been handed so far, in order.
VisitedEntries(log) ==
    LET vis(e) == e.ev = "visit"
        vs == SelectSeq(log, vis)
    IN  [k \in 1..Len(vs) |-> [name |-> vs[k].name, isDir |-> vs[k].isDir]]

\* C16: every name handed to the embedded store, by a listing or by a file
\* open, is free of backslashes; and a Walk whose start path is written
\* with backslashes lists the directory of the forward-slash path, handing
\* the visitor that directory's entries in the store's order (or failing
\* before any visitor call when the forward-slash path cannot be listed).
C16_SeparatorsNormalized ==
    /\ \A k \in 1..Len(events) :
          events[k].ev = "list" => NoBackslash(events[k].path)
    /\ \A name \in opened : NoBackslash(name)
    /\ (caller = "Walk" /\ startPath = BackslashStart /\ events # <<>>) =>
          /\ events[1] = ListEvent(ForwardStart)
          /\ ReadDir(fsys, ForwardStart).err # Nil =>
                Returned /\ VisitCount(events) = 0
                  /\ result = Errorf("no folder found", ReadDir(fsys, ForwardStart).err)
          /\ (top /\ ReadDir(fsys, ForwardStart).err = Nil) =>
                /\ dirpath = ForwardStart
                /\ VisitedEntries(events) \o items
                     = ReadDir(fsys, ForwardStart).items

C16_Witness ==
    /\ caller = "Walk"
    /\ Separator = "/"
    /\ startPath = BackslashStart
    /\ Succeeded
    /\ VisitCount(events) >= 2

\* The positions of the visitor calls in a log.
VisitAt(log) == {k \in 1..Len(log) : log[k].ev = "visit"}

\* The depth of a visitor call: the depth of the directory being listed.
DepthAt(log, k) == Len(EmbedKey(log[k].path))

\* C17: in the sequence of visitor calls the depths never decrease, and the
\* calls for the children of one directory are contiguous.
C17_BreadthFirst ==
    \A j \in VisitAt(events) : \A k \in VisitAt(events) :
        j < k =>
            /\ DepthAt(events, j) <= DepthAt(events, k)
            /\ \A l \in VisitAt(events) :
                  (k < l /\ events[l].path = events[j].path) =>
                      events[k].path = events[j].path

\* A directory was visited, then a sibling of it, then one of its children:
\* a depth-first walk would have visited the child before the sibling.
C17_Witness ==
    /\ Succeeded
    /\ \E j \in VisitAt(events) : \E k \in VisitAt(events) :
        \E l \in VisitAt(events) :
          /\ j < k /\ k < l
          /\ events[j].isDir
          /\ events[k].path = events[j].path
          /\ EmbedKey(events[l].path)
               = EmbedKey(events[j].path) \o <<events[j].name>>

\* The visitor is about to create the host file of the entry at the head of
\* items: Write always does, Touch and Patch when the target is absent.
CreatesFile ==
    /\ visitor \in {"Touch", "Write", "Patch"}
    /\ pc = "visit"
    /\ items # <<>>
    /\ ~Head(items).isDir
    /\ \/ visitor = "Write"
       \/ IsNotExist(Stat(host, Join(<<OutputPath, dirpath, Head(items).name>>,
                                     Separator), Separator))

\* C18: whenever Touch, Write, Patch or Create is about to create a host
\* file, the file's parent directory is already a directory of the host,
\* whatever the embedded tree and even when the destination root was
\* missing before the call.
C18_ParentReadyAtCreate ==
    CreatesFile => IsHostDir(host, EmbedKey(dirpath))

\* The error the last WalkDir call returned to Walk: the listing error when
\* the log ends with a listing, the visitor's error otherwise.
RawError ==
    IF events[Len(events)].ev = "list"
    THEN ReadDir(fsys, events[Len(events)].path).err
    ELSE ferr

\* The walk is still in its start-level pass: one directory has been listed.
InStartLevel == Cardinality({k \in 1..Len(events) : events[k].ev = "list"}) = 1

\* A directory entry has been handed to Walk's wrapper, which queued it.
DirQueued == \E k \in VisitAt(events) : events[k].isDir

StatOfHead ==
    Stat(host, Join(<<OutputPath, dirpath, Head(items).name>>, Separator),
         Separator)

FolderKey(path) == EmbedKey(sanitize(path))

\* The folder strings Walk's wrapper has appended so far, in order: one for
\* every directory entry handed to it.
DirsSeen(log) ==
    LET isDirVisit(e) == e.ev = "visit" /\ e.isDir
        vs == SelectSeq(log, isDirVisit)
    IN  [k \in 1..Len(vs) |-> Join(<<vs[k].path, vs[k].name>>, Separator)]

\* The discovered folders that lie at depth d, in discovery order.
LevelSeq(log, d) ==
    LET atDepth(x) == Len(FolderKey(x)) = d
    IN  SelectSeq(DirsSeen(log), atDepth)

\* The paths listed so far, in order.
Listed(log) ==
    LET isList(e) == e.ev = "list"
        ls == SelectSeq(log, isList)
    IN  [k \in 1..Len(ls) |-> ls[k].path]

\* Walk is between two rounds: the start level or a whole round is over
\* and no folder of the next round has been taken.
RoundStart == pc = "loop" /\ i = 0 /\ ~top

\* Walk is inside a round of n folders.
InRound == pc \in {"loop", "readdir", "visit"} /\ ~top /\ n > 0

\* C21: between two rounds the queue holds, once each and in discovery
\* order, exactly the directories of the next depth level below the start
\* path, none of them listed yet, and n is its length; inside a round the
\* first n folders are that level and what follows them are the
\* subdirectories discovered in the round, in discovery order; no
\* directory is listed twice, and a walk that returned nil has listed the
\* start path and every directory below it.
C21_QueueHoldsOneLevel ==
    LET listed == [k \in 1..Len(Listed(events)) |-> EmbedKey(Listed(events)[k])]
        queued == [k \in 1..Len(folders) |-> FolderKey(folders[k])]
        below == Descendants(fsys, StartKey) \cap DirsOf(fsys)
    IN  /\ RoundStart =>
              /\ n = Len(folders)
              /\ folders = LevelSeq(events, Len(listed[Len(listed)]) + 1)
              /\ {queued[k] : k \in 1..Len(queued)}
                   = {d \in below : Len(d) = Len(listed[Len(listed)]) + 1}
              /\ \A j \in 1..Len(queued) : \A k \in 1..Len(queued) :
                    queued[j] = queued[k] => j = k
              /\ \A k \in 1..Len(queued) : \A l \in 1..Len(listed) :
                    queued[k] # listed[l]
        /\ InRound =>
              /\ n <= Len(folders)
              /\ SubSeq(folders, 1, n) = LevelSeq(events, Len(queued[1]))
              /\ SubSeq(folders, n + 1, Len(folders))
                   = LevelSeq(events, Len(queued[1]) + 1)
        /\ \A j \in 1..Len(listed) : \A k \in 1..Len(listed) :
              listed[j] = listed[k] => j = k
        /\ Succeeded =>
              {listed[k] : k \in 1..Len(listed)} = {StartKey} \cup below

\* A round is over and left a folder discovered in it at the front of the
\* queue.
C21_Witness ==
    /\ RoundStart
    /\ Len(Listed(events)) >= 2
    /\ n >= 1

\* The host keys that mirror a node of the embedded tree; the destination
\* root mirrors the tree's root.
MirrorKeys == {DestKey(p) : p \in NodesOf(fsys) \cup {<<>>}}

\* A step that removes no host node, leaves every host node that mirrors
\* no embedded node as it is, adds none, and leaves the embedded tree as
\* it is.
KeepsFrame ==
    /\ fsys' = fsys
    /\ DOMAIN host \subseteq DOMAIN host'
    /\ \A q \in DOMAIN host' :
          q \notin MirrorKeys => (q \in DOMAIN host /\ host'[q] = host[q])

\* C22: no step of a policy removes a host node, changes or adds a host
\* node at a path that is not the mirror of an embedded node, or changes
\* the embedded tree.
C22_OnlyMirrorsTouched ==
    [][(caller \in Policies) => KeepsFrame]_vars

\* A run changed the host and ended, and a file below the destination
\* root that mirrors no embedded node is as it was.
C22_Witness ==
    /\ caller \in Policies
    /\ Returned
    /\ host # host0
    /\ \E q \in DOMAIN host0 :
          /\ q \notin MirrorKeys
          /\ Len(q) >= 2
          /\ ~host0[q].dir
          /\ host[q] = host0[q]

====
